---- MODULE Spec2Model ----
(***************************************************************************)
(* The session client of the study assistant front-end (src/src/api.js):   *)
(* the token pair kept in localStorage, the protected operations with      *)
(* their refresh-and-retry on 401, verifyOTP and logout.                   *)
(*                                                                         *)
(* One step of the model is one run-to-completion job of the JavaScript    *)
(* event loop: the code between two network waits.  A response is          *)
(* delivered with its body (res.json() is read in the step that receives   *)
(* the response; no storage access lies between the two waits).            *)
(***************************************************************************)
EXTENDS Integers, Sequences, FiniteSets, TLC

VARIABLES
    storage,    \* localStorage: a function from the keys present to their strings
    location,   \* window.location.href
    calls,      \* one record per caller of a protected operation
    verify,     \* the verifyOTP call of the login form
    other,      \* a call of one of the other exported operations
    app,        \* the state of App (useState)
    tabs,       \* the state of InputTabs (useState)
    playground, \* the props and state of QuizPlayground
    login       \* the state of Login (useState) and its handlers in progress

vars == <<storage, location, calls, verify, other, app, tabs, playground, login>>

\* the state of the components; api.js never touches it
ui == <<app, tabs, playground, login>>

-----------------------------------------------------------------------------
(* Bounds and domains *)

\* Counters of one call saturate here, so that an endless retry is a cycle.
MaxCount == 3

\* A quiz has 1..MaxQuestions questions, each with options 0..MaxOption.
MaxQuestions == 2
MaxOption == 1

\* The callers of protected operations.  Each has at most one call in
\* progress; a caller whose call has settled may start another.
Callers == {"c1", "c2"}

\* The callers that act in Spec.
SoloCallers == {"c1"}

ProtectedOps ==
    {"getUserProfile", "summarizeText", "summarizeYouTube", "summarizePDF",
     "generateQuiz", "getUserSummaries", "getUserQuizzes"}

AccessTokens == {"A1", "A2"}
RefreshTokens == {"R1", "R2"}
Users == {[email |-> "a@b.com"]}
Emails == {"a@b.com"}
Otps == {"123456"}

\* What the backend may answer.
Statuses == {200, 401, 500}
Details == {"", "Not allowed"}

\* localStorage.getItem of an absent key, and a field left empty.
Null == "<null>"

Inc(n) == IF n < MaxCount THEN n + 1 ELSE MaxCount

-----------------------------------------------------------------------------
(* localStorage *)

getItem(store, k) == IF k \in DOMAIN store THEN store[k] ELSE Null

setItem(store, k, v) ==
    [x \in DOMAIN store \cup {k} |-> IF x = k THEN v ELSE store[x]]

removeItem(store, k) == [x \in DOMAIN store \ {k} |-> store[x]]

\* JavaScript truthiness of a string-or-null
Truthy(v) == v # Null /\ v # ""

EmptyStore == [x \in {} |-> ""]

StoreOf(a, r) ==
    [x \in (IF a = Null THEN {} ELSE {"access_token"})
        \cup (IF r = Null THEN {} ELSE {"refresh_token"})
     |-> IF x = "access_token" THEN a ELSE r]

\* the stores localStorage can hold: each token present or absent
AllStores ==
    {StoreOf(a, r) : a \in AccessTokens \cup {Null}, r \in RefreshTokens \cup {Null}}

-----------------------------------------------------------------------------
(* Requests and responses *)

Bearer(token) == "Bearer " \o token

NoHeaders == [h \in {} |-> ""]

\* getAuthHeaders reading the other storage key
getAuthHeadersWrongKey(store) ==
    LET token == getItem(store, "refresh_token")
    IN [h \in {"Content-Type"} \cup (IF Truthy(token) THEN {"Authorization"} ELSE {})
          |-> IF h = "Content-Type" THEN "application/json" ELSE Bearer(token)]

\* api.js getAuthHeaders
getAuthHeaders(store) ==
    LET token == getItem(store, "access_token")
    IN [h \in {"Content-Type"} \cup (IF Truthy(token) THEN {"Authorization"} ELSE {})
          |-> IF h = "Content-Type" THEN "application/json" ELSE Bearer(token)]

\* summarizePDF's headers without the (token && ...) guard
pdfHeadersUnguarded(store) ==
    LET token == getItem(store, "access_token")
    IN [h \in {"Authorization"} |-> Bearer(token)]

\* the headers summarizePDF builds inline (multipart: no Content-Type)
pdfHeaders(store) ==
    LET token == getItem(store, "access_token")
    IN [h \in (IF Truthy(token) THEN {"Authorization"} ELSE {}) |-> Bearer(token)]

PathOf(op) ==
    CASE op = "getUserProfile"   -> "/api/user/profile"
      [] op = "summarizeText"    -> "/api/summarize"
      [] op = "summarizeYouTube" -> "/api/summarize"
      [] op = "summarizePDF"     -> "/api/summarize-pdf"
      [] op = "generateQuiz"     -> "/api/quiz"
      [] op = "getUserSummaries" -> "/api/user/summaries"
      [] op = "getUserQuizzes"   -> "/api/user/quizzes"

MethodOf(op) ==
    IF op \in {"getUserProfile", "getUserSummaries", "getUserQuizzes"}
    THEN "GET" ELSE "POST"

BodyOf(op) ==
    CASE op = "summarizeText"    -> "{text}"
      [] op = "summarizeYouTube" -> "{youtube_url}"
      [] op = "summarizePDF"     -> "FormData{file}"
      [] op = "generateQuiz"     -> "{text}"
      [] OTHER                   -> ""

\* the fetch() each protected operation opens with
ProtectedRequest(op, store) ==
    [path    |-> PathOf(op),
     method  |-> MethodOf(op),
     headers |-> IF op = "summarizePDF" THEN pdfHeaders(store)
                 ELSE getAuthHeaders(store),
     body    |-> BodyOf(op)]

\* the fetch() of refreshAccessToken
RefreshRequest(refreshToken) ==
    [path    |-> "/api/auth/refresh",
     method  |-> "POST",
     headers |-> [h \in {"Content-Type"} |-> "application/json"],
     body    |-> refreshToken]

NoRequest == [path |-> "", method |-> "", headers |-> NoHeaders, body |-> ""]

\* res.ok
Ok(status) == status >= 200 /\ status <= 299

HasAuthorization(req) == "Authorization" \in DOMAIN req.headers

\* handleAuthError taking every response that is not ok for an expired token
AnyErrorUnauthorized(status) == ~Ok(status)

\* handleAuthError: if (response.status === 401)
IsUnauthorized(status) == status = 401

-----------------------------------------------------------------------------
(* Protected operations: getUserProfile, summarizeText, summarizeYouTube,  *)
(* summarizePDF, generateQuiz, getUserSummaries, getUserQuizzes.           *)
(* All seven have the same shape:                                          *)
(*     const res = await fetch(...);                                       *)
(*     if (await handleAuthError(res)) return op(args);                    *)
(*     if (!res.ok) throw new Error(error.detail || default);              *)
(*     return res.json();                                                  *)

SessionExpiredMessage == "Session expired. Please login again."
TransportError == "TypeError: Failed to fetch"

\* the message of the Error thrown on a non-2xx response
ErrorMessage(op, status, detail) ==
    IF detail # "" THEN detail
    ELSE CASE op = "getUserProfile"   -> "Failed to fetch profile"
           [] op = "summarizeText"    -> "Failed to summarize text"
           [] op = "summarizeYouTube" ->
                  "HTTP " \o ToString(status) \o ": Failed to summarize YouTube"
           [] op = "summarizePDF"     -> "Failed to summarize PDF"
           [] op = "generateQuiz"     -> "Failed to generate quiz"
           [] op = "getUserSummaries" -> "Failed to fetch summaries"
           [] op = "getUserQuizzes"   -> "Failed to fetch quizzes"

\* the parsed body of a 2xx response, passed through to the caller
PayloadOf(op) ==
    CASE op = "getUserProfile"              -> "{profile}"
      [] op \in {"summarizeText", "summarizeYouTube", "summarizePDF"} -> "{summary}"
      [] op = "generateQuiz"                -> "{questions}"
      [] OTHER                              -> "[records]"

IdleCall ==
    [op |-> "", pc |-> "idle", req |-> NoRequest, status |-> 0,
     sent |-> 0, refreshes |-> 0, n401 |-> 0, writes |-> 0,
     data |-> Null, result |-> Null, err |-> ""]

\* a call settles: nothing is in flight any more
Settled(call, pc, status, result, err) ==
    [call EXCEPT !.pc = pc, !.req = NoRequest, !.status = status,
                 !.result = result, !.err = err]

InFlight(call) == call.pc \in {"fetch", "refresh"}

\* refreshAccessToken without its early return
NoRefreshCheck(store) == TRUE

\* refreshAccessToken: if (!refreshToken) return false
HasRefreshToken(store) == Truthy(getItem(store, "refresh_token"))

\* handleAuthError without its second removeItem
ClearAccessOnly(store) == removeItem(store, "access_token")

\* handleAuthError, recovery failed: both tokens are removed
ClearSession(store) ==
    removeItem(removeItem(store, "access_token"), "refresh_token")

\* refreshAccessToken storing the new token under the refresh token's key
StoreAsRefreshToken(store, data) == setItem(store, "refresh_token", data.access_token)

\* refreshAccessToken returning true without storing the token
DropRefreshed(store, data) == store

\* refreshAccessToken: localStorage.setItem('access_token', data.access_token)
StoreRefreshed(store, data) == setItem(store, "access_token", data.access_token)

\* A caller starts an operation: the first fetch is dispatched.
Start(c, op) ==
    /\ ~InFlight(calls[c])
    /\ op \in ProtectedOps
    /\ calls' = [calls EXCEPT ![c] =
                    [IdleCall EXCEPT !.op = op, !.pc = "fetch", !.sent = 1,
                                     !.req = ProtectedRequest(op, storage)]]
    /\ UNCHANGED <<storage, location, verify, other>>

\* fetch() rejects: nothing catches it, the operation rejects with it.
FetchFails(c) ==
    /\ calls[c].pc = "fetch"
    /\ calls' = [calls EXCEPT ![c] = Settled(@, "rejected", 0, Null, TransportError)]
    /\ UNCHANGED <<storage, location, verify, other>>

\* A 2xx response: handleAuthError returns false, res.ok, return res.json().
RespondOk(c, status) ==
    /\ calls[c].pc = "fetch"
    /\ Ok(status)
    /\ calls' = [calls EXCEPT ![c] =
                    Settled(@, "resolved", status, PayloadOf(@.op), "")]
    /\ UNCHANGED <<storage, location, verify, other>>

\* A non-2xx response other than 401: handleAuthError returns false, throw.
RespondError(c, status, detail) ==
    /\ calls[c].pc = "fetch"
    /\ ~Ok(status) /\ ~IsUnauthorized(status)
    /\ calls' = [calls EXCEPT ![c] =
                    Settled(@, "rejected", status, Null,
                            ErrorMessage(@.op, status, detail))]
    /\ UNCHANGED <<storage, location, verify, other>>

\* A 401 response: handleAuthError calls refreshAccessToken, which either
\* returns false at once (no refresh token stored) or sends the refresh
\* request.
Respond401(c, status) ==
    /\ calls[c].pc = "fetch"
    /\ IsUnauthorized(status)
    /\ IF HasRefreshToken(storage)
       THEN /\ calls' = [calls EXCEPT ![c] =
                           [@ EXCEPT !.pc = "refresh", !.status = status,
                                     !.n401 = Inc(@),
                                     !.refreshes = Inc(@),
                                     !.req = RefreshRequest(
                                                getItem(storage, "refresh_token"))]]
            /\ UNCHANGED <<storage, location>>
       ELSE /\ storage' = ClearSession(storage)
            /\ location' = "/login"
            /\ calls' = [calls EXCEPT ![c] =
                           Settled([@ EXCEPT !.n401 = Inc(@)], "rejected", status,
                                   Null, SessionExpiredMessage)]
    /\ UNCHANGED <<verify, other>>

\* The refresh answers 2xx with {access_token}: the token is stored,
\* handleAuthError returns true and the operation calls itself again.
RefreshOk(c, status, token) ==
    /\ calls[c].pc = "refresh"
    /\ Ok(status)
    /\ LET data == [access_token |-> token]
           store == StoreRefreshed(storage, data)
       IN /\ storage' = store
          /\ calls' = [calls EXCEPT ![c] =
                          [@ EXCEPT !.pc = "fetch", !.status = 0,
                                    !.data = data.access_token,
                                    !.writes = Inc(@),
                                    !.sent = Inc(@),
                                    !.req = ProtectedRequest(calls[c].op, store)]]
    /\ UNCHANGED <<location, verify, other>>

\* The refresh answers non-2xx, or its fetch rejects (caught): false is
\* returned, and handleAuthError clears the session, redirects and throws.
RefreshFails(c, status) ==
    /\ calls[c].pc = "refresh"
    /\ ~Ok(status)
    /\ storage' = ClearSession(storage)
    /\ location' = "/login"
    /\ calls' = [calls EXCEPT ![c] =
                    Settled(@, "rejected", calls[c].status, Null,
                            SessionExpiredMessage)]
    /\ UNCHANGED <<verify, other>>

\* The network settles the request a call has in flight: the backend
\* answers it, or the transport fails.  Status 0 stands for no response.
Answer(c) ==
    \/ FetchFails(c)
    \/ \E s \in Statuses : RespondOk(c, s)
    \/ \E s \in Statuses, d \in Details : RespondError(c, s, d)
    \/ \E s \in Statuses : Respond401(c, s)
    \/ \E t \in AccessTokens, s \in Statuses : RefreshOk(c, s, t)
    \/ \E s \in Statuses \cup {0} : RefreshFails(c, s)

-----------------------------------------------------------------------------
(* verifyOTP, as called by the login form's handleVerifyOTP *)

NoData == [access_token |-> Null, refresh_token |-> Null, user |-> [email |-> Null]]

IdleVerify ==
    [pc |-> "idle", req |-> NoRequest, status |-> 0, data |-> NoData,
     result |-> NoData, err |-> "", loginUser |-> [email |-> Null]]

VerifyRequest(email, otp) ==
    [path    |-> "/api/auth/verify-otp",
     method  |-> "POST",
     headers |-> [h \in {"Content-Type"} |-> "application/json"],
     body    |-> email \o ":" \o otp]

\* verifyOTP storing each token under the other's key
PersistSwapped(store, data) ==
    setItem(setItem(store, "access_token", data.refresh_token),
            "refresh_token", data.access_token)

\* verifyOTP without its second setItem
PersistAccessOnly(store, data) == setItem(store, "access_token", data.access_token)

\* verifyOTP: the two setItem calls
PersistTokens(store, data) ==
    setItem(setItem(store, "access_token", data.access_token),
            "refresh_token", data.refresh_token)

\* verifyOTP storing the body's tokens before it looks at res.ok
EarlyPersist(store, data) == PersistTokens(store, data)

\* verifyOTP on a response that is not ok: it throws before any setItem
FailedVerifyStore(store, data) == store

\* the bodies the verify endpoint may answer 2xx with
VerifyData ==
    [access_token : AccessTokens, refresh_token : RefreshTokens, user : Users]

VerifyStart(email, otp) ==
    /\ verify.pc # "sent"
    /\ verify' = [IdleVerify EXCEPT !.pc = "sent", !.req = VerifyRequest(email, otp)]
    /\ UNCHANGED <<storage, location, calls, other>>

\* 2xx with {access_token, refresh_token, user}: both tokens are stored and
\* data is returned; handleVerifyOTP passes data.user to onLoginSuccess.
VerifyOk(status, data) ==
    /\ verify.pc = "sent"
    /\ Ok(status)
    /\ storage' = PersistTokens(storage, data)
    /\ verify' = [verify EXCEPT !.pc = "resolved", !.req = NoRequest,
                                !.status = status, !.data = data,
                                !.result = data, !.loginUser = data.user]
    /\ UNCHANGED <<location, calls, other>>

\* non-2xx: throw new Error(error.detail || "Invalid OTP")
VerifyRejected(status, detail, data) ==
    /\ verify.pc = "sent"
    /\ ~Ok(status)
    /\ storage' = FailedVerifyStore(storage, data)
    /\ verify' = [verify EXCEPT !.pc = "rejected", !.req = NoRequest,
                                !.status = status, !.data = data,
                                !.err = IF detail # "" THEN detail ELSE "Invalid OTP"]
    /\ UNCHANGED <<location, calls, other>>

\* fetch() rejects
VerifyFails ==
    /\ verify.pc = "sent"
    /\ verify' = [verify EXCEPT !.pc = "rejected", !.req = NoRequest,
                                !.err = TransportError]
    /\ UNCHANGED <<storage, location, calls, other>>

VerifyAnswer ==
    \/ \E s \in Statuses, d \in VerifyData : VerifyOk(s, d)
    \/ \E s \in Statuses, dt \in Details : VerifyRejected(s, dt, NoData)
    \/ VerifyFails

-----------------------------------------------------------------------------
(* logout *)

\* logout without its first removeItem
logoutRefreshOnly(store) == removeItem(store, "refresh_token")

\* api.js logout
logout(store) == removeItem(removeItem(store, "access_token"), "refresh_token")

Logout ==
    /\ storage' = logout(storage)
    /\ UNCHANGED <<location, calls, verify, other>>

-----------------------------------------------------------------------------
(* The other exported operations and the components: initial states *)

IdleOther ==
    [op |-> "", pc |-> "idle", req |-> NoRequest, status |-> 0,
     result |-> Null, err |-> "", logged |-> ""]

\* summaryData === null
NoSummary == [summary |-> Null, title |-> Null]

\* App: the useState initial values
InitialApp ==
    [isAuthenticated |-> FALSE, user |-> [email |-> Null], authLoading |-> TRUE,
     summaryData |-> NoSummary, loading |-> FALSE, quiz |-> <<>>,
     quizOpen |-> FALSE, quizLoading |-> FALSE]

\* InputTabs: the useState initial values (strings are sequences of
\* characters); alert is the last message shown with alert()
InitialTabs ==
    [activeTab |-> "text", text |-> <<>>, file |-> Null, url |-> <<>>,
     alert |-> ""]

\* Login has up to two handlers in progress at once.
Handlers == {"h1", "h2"}

\* The handlers that act in LoginSpec.
SoloHandlers == {"h1"}

\* a handler slot with no handler running in it
IdleHandler == [handler |-> "", awaiting |-> ""]

\* Login: the useState initial values; alert is the last message shown
\* with alert()
InitialLogin ==
    [mode |-> "login", step |-> "email", loading |-> FALSE, error |-> "",
     timer |-> 0, alert |-> "", pending |-> [h \in Handlers |-> IdleHandler]]

\* useState(null) of score: a score is <<>> (null) or <<total>>
NoScore == <<>>

\* QuizPlayground not mounted
NoPlayground ==
    [questions |-> <<>>, currentIndex |-> 0, answers |-> <<>>,
     score |-> NoScore, showExplanation |-> FALSE]

-----------------------------------------------------------------------------
(* The exported operations without handleAuthError: registerUser, sendOTP, *)
(* downloadQuizPdf, and refreshAccessToken called directly.                *)

OtherOps == {"registerUser", "sendOTP", "downloadQuizPdf", "refreshAccessToken"}

\* downloadQuizPdf sending the stored token as the protected operations do
downloadHeadersWithToken(store) == getAuthHeaders(store)

\* downloadQuizPdf: headers: { "Content-Type": "application/json" }
downloadHeaders(store) == [h \in {"Content-Type"} |-> "application/json"]

OtherRequest(op, store) ==
    CASE op = "registerUser" ->
            [path |-> "/api/auth/register", method |-> "POST",
             headers |-> [h \in {"Content-Type"} |-> "application/json"],
             body |-> "{email,phone,full_name}"]
      [] op = "sendOTP" ->
            [path |-> "/api/auth/send-otp", method |-> "POST",
             headers |-> [h \in {"Content-Type"} |-> "application/json"],
             body |-> "{email,phone}"]
      [] op = "downloadQuizPdf" ->
            [path |-> "/api/download-quiz", method |-> "POST",
             headers |-> downloadHeaders(store),
             body |-> "{title,quiz_data}"]
      [] op = "refreshAccessToken" ->
            RefreshRequest(getItem(store, "refresh_token"))

\* error.detail || default
OtherErrorMessage(op, detail) ==
    IF detail # "" THEN detail
    ELSE CASE op = "registerUser"    -> "Registration failed"
           [] op = "sendOTP"         -> "Failed to send OTP"
           [] op = "downloadQuizPdf" -> "Failed to download PDF"

\* what a 2xx response makes the operation resolve to
OtherPayload(op) ==
    CASE op = "downloadQuizPdf"    -> "undefined"
      [] op = "refreshAccessToken" -> "true"
      [] OTHER                     -> "{message}"

\* the operation throws: downloadQuizPdf's catch logs the error and rethrows
\* it, registerUser and sendOTP have no catch
OtherRejected(call, status, err) ==
    [call EXCEPT !.pc = "rejected", !.req = NoRequest, !.status = status,
                 !.err = err,
                 !.logged = IF call.op = "downloadQuizPdf"
                            THEN "Download failed: " \o err ELSE ""]

\* refreshAccessToken: return false
ReturnedFalse(call, status) ==
    [call EXCEPT !.pc = "resolved", !.req = NoRequest, !.status = status,
                 !.result = "false"]

\* The operation is called.  refreshAccessToken returns false at once when
\* no refresh token is stored; everything else dispatches its fetch.
OtherStart(op) ==
    /\ other.pc # "sent"
    /\ op \in OtherOps
    /\ other' = IF op = "refreshAccessToken" /\ ~HasRefreshToken(storage)
                THEN ReturnedFalse([IdleOther EXCEPT !.op = op], 0)
                ELSE [IdleOther EXCEPT !.op = op, !.pc = "sent",
                                       !.req = OtherRequest(op, storage)]
    /\ UNCHANGED <<storage, location, calls, verify>>

\* 2xx to registerUser, sendOTP or downloadQuizPdf
OtherOk(status) ==
    /\ other.pc = "sent" /\ other.op # "refreshAccessToken"
    /\ Ok(status)
    /\ other' = [other EXCEPT !.pc = "resolved", !.req = NoRequest,
                              !.status = status, !.result = OtherPayload(other.op)]
    /\ UNCHANGED <<storage, location, calls, verify>>

\* 2xx to a direct refreshAccessToken: the access token is stored
OtherRefreshOk(status, token) ==
    /\ other.pc = "sent" /\ other.op = "refreshAccessToken"
    /\ Ok(status)
    /\ storage' = StoreRefreshed(storage, [access_token |-> token])
    /\ other' = [other EXCEPT !.pc = "resolved", !.req = NoRequest,
                              !.status = status, !.result = OtherPayload(other.op)]
    /\ UNCHANGED <<location, calls, verify>>

\* Any non-2xx response, 401 included: none of these operations calls
\* handleAuthError.
OtherError(status, detail) ==
    /\ other.pc = "sent"
    /\ ~Ok(status)
    /\ other' = IF other.op = "refreshAccessToken"
                THEN ReturnedFalse(other, status)
                ELSE OtherRejected(other, status,
                                   OtherErrorMessage(other.op, detail))
    /\ UNCHANGED <<storage, location, calls, verify>>

\* fetch() rejects
OtherFails ==
    /\ other.pc = "sent"
    /\ other' = IF other.op = "refreshAccessToken"
                THEN ReturnedFalse(other, 0)
                ELSE OtherRejected(other, 0, TransportError)
    /\ UNCHANGED <<storage, location, calls, verify>>

-----------------------------------------------------------------------------
(* The specification *)

Init ==
    /\ storage = EmptyStore
    /\ location = "/"
    /\ calls = [c \in Callers |-> IdleCall]
    /\ verify = IdleVerify
    /\ other = IdleOther
    /\ app = InitialApp
    /\ tabs = InitialTabs
    /\ playground = NoPlayground
    /\ login = InitialLogin

\* The network's answers to a protected call, as api.js handles them.
CallSteps ==
    \/ \E c \in SoloCallers : FetchFails(c) /\ UNCHANGED ui
    \/ \E c \in SoloCallers, s \in Statuses : RespondOk(c, s) /\ UNCHANGED ui
    \/ \E c \in SoloCallers, s \in Statuses, d \in Details :
          RespondError(c, s, d) /\ UNCHANGED ui
    \/ \E c \in SoloCallers, s \in Statuses : Respond401(c, s) /\ UNCHANGED ui
    \/ \E c \in SoloCallers, t \in AccessTokens, s \in Statuses :
          RefreshOk(c, s, t) /\ UNCHANGED ui
    \/ \E c \in SoloCallers, s \in Statuses \cup {0} :
          RefreshFails(c, s) /\ UNCHANGED ui

\* The steps of the session client after a protected call has started: the
\* network's answers, verifyOTP and logout.
ApiSteps ==
    \/ CallSteps
    \/ \E e \in Emails, o \in Otps : VerifyStart(e, o) /\ UNCHANGED ui
    \/ \E s \in Statuses, d \in VerifyData : VerifyOk(s, d) /\ UNCHANGED ui
    \/ \E s \in Statuses, dt \in Details :
          VerifyRejected(s, dt, NoData) /\ UNCHANGED ui
    \/ VerifyFails /\ UNCHANGED ui
    \/ Logout /\ UNCHANGED ui

Next ==
    \/ \E c \in SoloCallers, op \in ProtectedOps : Start(c, op) /\ UNCHANGED ui
    \/ ApiSteps

Spec == Init /\ [][Next]_vars

\* Every HTTP request eventually gets a response (or a transport failure).
FairSpec ==
    /\ Spec
    /\ \A c \in SoloCallers : WF_vars(Answer(c) /\ UNCHANGED ui)
    /\ WF_vars(VerifyAnswer /\ UNCHANGED ui)

\* The protected operations that run beside the other exported operations
\* in FrameSpec: one with getAuthHeaders, one with the inline headers.
FrameOps == {"getUserProfile", "summarizePDF"}

OtherSteps ==
    \/ \E op \in OtherOps : OtherStart(op) /\ UNCHANGED ui
    \/ \E s \in Statuses : OtherOk(s) /\ UNCHANGED ui
    \/ \E s \in Statuses, t \in AccessTokens : OtherRefreshOk(s, t) /\ UNCHANGED ui
    \/ \E s \in Statuses, d \in Details : OtherError(s, d) /\ UNCHANGED ui
    \/ OtherFails /\ UNCHANGED ui

FrameNext ==
    \/ \E c \in SoloCallers, op \in FrameOps : Start(c, op) /\ UNCHANGED ui
    \/ ApiSteps
    \/ OtherSteps

\* Every exported operation of api.js, interleaved.
FrameSpec == Init /\ [][FrameNext]_vars

\* Two callers at once: App's checkAuth calls getUserProfile, its
\* handleGenerateQuiz calls generateQuiz.
RaceOp(c) == IF c = "c1" THEN "getUserProfile" ELSE "generateQuiz"

RaceNext ==
    \/ \E c \in Callers : Start(c, RaceOp(c)) /\ UNCHANGED ui
    \/ \E c \in Callers : FetchFails(c) /\ UNCHANGED ui
    \/ \E c \in Callers, s \in Statuses : RespondOk(c, s) /\ UNCHANGED ui
    \/ \E c \in Callers, s \in Statuses, d \in Details :
          RespondError(c, s, d) /\ UNCHANGED ui
    \/ \E c \in Callers, s \in Statuses : Respond401(c, s) /\ UNCHANGED ui
    \/ \E c \in Callers, t \in AccessTokens, s \in Statuses :
          RefreshOk(c, s, t) /\ UNCHANGED ui
    \/ \E c \in Callers, s \in Statuses \cup {0} :
          RefreshFails(c, s) /\ UNCHANGED ui
    \/ \E e \in Emails, o \in Otps : VerifyStart(e, o) /\ UNCHANGED ui
    \/ \E s \in Statuses, d \in VerifyData : VerifyOk(s, d) /\ UNCHANGED ui
    \/ Logout /\ UNCHANGED ui

\* Two protected calls in flight together.
RaceSpec == Init /\ [][RaceNext]_vars

-----------------------------------------------------------------------------
(* App: the login page while not authenticated, the main page and its      *)
(* Logout button while authenticated.                                      *)

\* checkAuth on mount, no access token stored: setAuthLoading(false)
CheckAuth ==
    /\ app.authLoading
    /\ ~Truthy(getItem(storage, "access_token"))
    /\ app' = [app EXCEPT !.authLoading = FALSE]
    /\ UNCHANGED <<storage, location, calls, verify, other, tabs, playground, login>>

\* the login page is rendered
LoginShown == ~app.authLoading /\ ~app.isAuthenticated

\* the main page is rendered
MainShown == ~app.authLoading /\ app.isAuthenticated

\* handleVerifyOTP: verifyOTP resolves, onLoginSuccess(data.user) runs
\* handleLoginSuccess, and the finally block runs setLoading(false)
LoginSuccess(status, data) ==
    /\ VerifyOk(status, data)
    /\ app' = [app EXCEPT !.user = data.user, !.isAuthenticated = TRUE]
    /\ login' = [login EXCEPT !.loading = FALSE]
    /\ UNCHANGED <<tabs, playground>>

\* the Logout button of the header; App renders Login in place of the main
\* page, mounted anew
handleLogout ==
    /\ MainShown
    /\ Logout
    /\ app' = [app EXCEPT !.isAuthenticated = FALSE, !.user = [email |-> Null],
                          !.summaryData = NoSummary, !.quiz = <<>>]
    /\ login' = InitialLogin
    /\ UNCHANGED <<tabs, playground>>

AppNext ==
    \/ CheckAuth
    \/ \E e \in Emails, o \in Otps :
          LoginShown /\ VerifyStart(e, o) /\ UNCHANGED ui
    \/ \E s \in Statuses, d \in VerifyData : LoginSuccess(s, d)
    \/ \E s \in Statuses, dt \in Details :
          VerifyRejected(s, dt, NoData) /\ UNCHANGED ui
    \/ VerifyFails /\ UNCHANGED ui
    \/ \E c \in SoloCallers, op \in ProtectedOps :
          MainShown /\ Start(c, op) /\ UNCHANGED ui
    \/ CallSteps
    \/ handleLogout

\* The session client driven by App.
AppSpec == Init /\ [][AppNext]_vars

-----------------------------------------------------------------------------
(* InputTabs *)

Tabs == {"text", "pdf", "youtube"}

\* what the user may type, paste or pick
Texts == {<<" ", " ">>, <<" ", "n", " ">>}
Urls == {<<" ">>, <<"u">>}
Files == {"notes.pdf"}

IsSpace(ch) == ch \in {" ", "\t", "\n"}

RECURSIVE TrimStart(_)
TrimStart(str) ==
    IF str = <<>> THEN str
    ELSE IF IsSpace(Head(str)) THEN TrimStart(Tail(str)) ELSE str

RECURSIVE TrimEnd(_)
TrimEnd(str) ==
    IF str = <<>> THEN str
    ELSE IF IsSpace(str[Len(str)]) THEN TrimEnd(SubSeq(str, 1, Len(str) - 1))
         ELSE str

\* String.prototype.trim
trim(str) == TrimEnd(TrimStart(str))

\* handleSummarize without its three checks
NeverMissing(t) == FALSE

\* handleSummarize: the input of the active tab is missing
MissingInput(t) ==
    CASE t.activeTab = "text"    -> trim(t.text) = <<>>
      [] t.activeTab = "pdf"     -> t.file = Null
      [] t.activeTab = "youtube" -> trim(t.url) = <<>>

MissingMessage(tab) ==
    CASE tab = "text"    -> "Please enter some text"
      [] tab = "pdf"     -> "Please upload a PDF file"
      [] tab = "youtube" -> "Please enter a YouTube URL"

\* the operation handleSummarize calls for the active tab
OpOfTab(tab) ==
    CASE tab = "text"    -> "summarizeText"
      [] tab = "pdf"     -> "summarizePDF"
      [] tab = "youtube" -> "summarizeYouTube"

TitleOf(t) ==
    CASE t.activeTab = "youtube" -> "YouTube Summary"
      [] t.activeTab = "pdf"     -> t.file
      [] OTHER                   -> "Text Summary"

\* the controls of the main page respond: it is rendered and the loading
\* overlay does not cover it
InputEnabled == MainShown /\ ~app.loading

setActiveTab(tab) ==
    /\ InputEnabled
    /\ tabs' = [tabs EXCEPT !.activeTab = tab]
    /\ UNCHANGED <<storage, location, calls, verify, other, app, playground, login>>

\* the textarea, shown on the text tab
setText(v) ==
    /\ InputEnabled /\ tabs.activeTab = "text"
    /\ tabs' = [tabs EXCEPT !.text = v]
    /\ UNCHANGED <<storage, location, calls, verify, other, app, playground, login>>

\* the file input, shown on the pdf tab
setFile(f) ==
    /\ InputEnabled /\ tabs.activeTab = "pdf"
    /\ tabs' = [tabs EXCEPT !.file = f]
    /\ UNCHANGED <<storage, location, calls, verify, other, app, playground, login>>

\* the url input, shown on the youtube tab
setUrl(u) ==
    /\ InputEnabled /\ tabs.activeTab = "youtube"
    /\ tabs' = [tabs EXCEPT !.url = u]
    /\ UNCHANGED <<storage, location, calls, verify, other, app, playground, login>>

\* handleSummarize up to its await: an alert and nothing else when the
\* input is missing, otherwise setLoading(true) and the call.
handleSummarize(c) ==
    /\ InputEnabled
    /\ IF MissingInput(tabs)
       THEN /\ tabs' = [tabs EXCEPT !.alert = MissingMessage(tabs.activeTab)]
            /\ UNCHANGED <<storage, location, calls, verify, other, app, playground, login>>
       ELSE /\ Start(c, OpOfTab(tabs.activeTab))
            /\ app' = [app EXCEPT !.loading = TRUE]
            /\ UNCHANGED <<tabs, playground, login>>

\* handleSummarize after its await: onSummaryGenerated on success, the
\* alert of the catch on failure, setLoading(false) in both cases; nothing
\* while the call is still in flight (refresh or retry).
SummarizeContinues(c) ==
    /\ CASE calls'[c].pc = "resolved" ->
               /\ app' = [app EXCEPT !.loading = FALSE,
                                     !.summaryData = [summary |-> calls'[c].result,
                                                      title |-> TitleOf(tabs)]]
               /\ tabs' = tabs
         [] calls'[c].pc = "rejected" ->
               /\ app' = [app EXCEPT !.loading = FALSE]
               /\ tabs' = [tabs EXCEPT !.alert =
                                          "Failed to summarize: " \o calls'[c].err]
         [] OTHER -> UNCHANGED <<app, tabs>>
    /\ UNCHANGED <<playground, login>>

InputNext ==
    \/ CheckAuth
    \/ \E e \in Emails, o \in Otps :
          LoginShown /\ VerifyStart(e, o) /\ UNCHANGED ui
    \/ \E s \in Statuses, d \in VerifyData : LoginSuccess(s, d)
    \/ \E tab \in Tabs : setActiveTab(tab)
    \/ \E v \in Texts : setText(v)
    \/ \E f \in Files : setFile(f)
    \/ \E u \in Urls : setUrl(u)
    \/ \E c \in SoloCallers : handleSummarize(c)
    \/ \E c \in SoloCallers : FetchFails(c) /\ SummarizeContinues(c)
    \/ \E c \in SoloCallers, s \in Statuses :
          RespondOk(c, s) /\ SummarizeContinues(c)
    \/ \E c \in SoloCallers, s \in Statuses, d \in Details :
          RespondError(c, s, d) /\ SummarizeContinues(c)
    \/ \E c \in SoloCallers, s \in Statuses :
          Respond401(c, s) /\ SummarizeContinues(c)
    \/ \E c \in SoloCallers, t \in AccessTokens, s \in Statuses :
          RefreshOk(c, s, t) /\ SummarizeContinues(c)
    \/ \E c \in SoloCallers, s \in Statuses \cup {0} :
          RefreshFails(c, s) /\ SummarizeContinues(c)

\* The main page's input section, from mount and login on.
InputSpec == Init /\ [][InputNext]_vars

-----------------------------------------------------------------------------
(* QuizPlayground.  questions is the prop (a sequence, question i of the    *)
(* code is questions[i + 1]); answers is the object {qIdx: optionIdx}, a    *)
(* function on the indices answered so far.                                 *)

Options == 0..MaxOption

Questions == [answer_index : Options, explanation : BOOLEAN]

\* the question lists App mounts QuizPlayground with (quiz.length > 0)
QuestionLists == UNION {[1..n -> Questions] : n \in 1..MaxQuestions}

\* JavaScript !score
Falsy(score) == IF score = NoScore THEN TRUE ELSE score[1] = 0

\* {!score ? (question view) : (score card)}
QuestionView(p) == p.questions # <<>> /\ Falsy(p.score)
ScoreCard(p) == p.questions # <<>> /\ ~Falsy(p.score)

\* handleNext comparing with questions.length instead of length - 1
LastIndexOffByOne(p) == Len(p.questions)

LastIndex(p) == Len(p.questions) - 1

\* handleSubmit: the number of i with answers[i] === q.answer_index
Total(questions, answers) ==
    Cardinality({i \in 0..(Len(questions) - 1) :
                    i \in DOMAIN answers /\ answers[i] = questions[i + 1].answer_index})

\* App renders QuizPlayground with a non-empty quiz: the useState initial
\* values
Mount(qs) ==
    /\ playground = NoPlayground
    /\ playground' = [NoPlayground EXCEPT !.questions = qs]
    /\ UNCHANGED <<storage, location, calls, verify, other, app, tabs, login>>

\* an option button of the current question
handleAnswer(optionIdx) ==
    /\ QuestionView(playground)
    /\ playground' = [playground EXCEPT
                         !.answers = [i \in DOMAIN @ \cup {playground.currentIndex} |->
                                         IF i = playground.currentIndex
                                         THEN optionIdx ELSE @[i]],
                         !.showExplanation = FALSE]
    /\ UNCHANGED <<storage, location, calls, verify, other, app, tabs, login>>

handleNext ==
    /\ QuestionView(playground)
    /\ playground' = IF playground.currentIndex < LastIndex(playground)
                     THEN [playground EXCEPT !.currentIndex = @ + 1,
                                             !.showExplanation = FALSE]
                     ELSE playground
    /\ UNCHANGED <<storage, location, calls, verify, other, app, tabs, login>>

handlePrev ==
    /\ QuestionView(playground)
    /\ playground' = IF playground.currentIndex > 0
                     THEN [playground EXCEPT !.currentIndex = @ - 1,
                                             !.showExplanation = FALSE]
                     ELSE playground
    /\ UNCHANGED <<storage, location, calls, verify, other, app, tabs, login>>

\* the Show/Hide Explanation button, there once the current question is
\* answered and has an explanation
toggleExplanation ==
    /\ QuestionView(playground)
    /\ playground.currentIndex \in DOMAIN playground.answers
    /\ playground.questions[playground.currentIndex + 1].explanation
    /\ playground' = [playground EXCEPT !.showExplanation = ~@]
    /\ UNCHANGED <<storage, location, calls, verify, other, app, tabs, login>>

\* the Submit button: rendered on the last question, disabled until the
\* number of keys of answers is the number of questions
SubmitEnabled(p) ==
    /\ QuestionView(p)
    /\ p.currentIndex = LastIndex(p)
    /\ Cardinality(DOMAIN p.answers) = Len(p.questions)

handleSubmit ==
    /\ SubmitEnabled(playground)
    /\ playground' = [playground EXCEPT
                         !.score = <<Total(playground.questions, playground.answers)>>]
    /\ UNCHANGED <<storage, location, calls, verify, other, app, tabs, login>>

\* the Retake button of the score card
handleRetake ==
    /\ ScoreCard(playground)
    /\ playground' = [playground EXCEPT !.currentIndex = 0, !.answers = <<>>,
                                        !.score = NoScore,
                                        !.showExplanation = FALSE]
    /\ UNCHANGED <<storage, location, calls, verify, other, app, tabs, login>>

\* the close buttons of both views: onClose, App unmounts the component
handleClose ==
    /\ playground.questions # <<>>
    /\ playground' = NoPlayground
    /\ UNCHANGED <<storage, location, calls, verify, other, app, tabs, login>>

QuizNext ==
    \/ \E qs \in QuestionLists : Mount(qs)
    \/ \E o \in Options : handleAnswer(o)
    \/ handleNext
    \/ handlePrev
    \/ toggleExplanation
    \/ handleSubmit
    \/ handleRetake
    \/ handleClose

\* QuizPlayground on its own.
QuizSpec == Init /\ [][QuizNext]_vars

-----------------------------------------------------------------------------
(* Login.  A handler in progress occupies a slot of login.pending, which   *)
(* names the handler and the request it awaits.  registerUser and sendOTP  *)
(* resolve on a 2xx answer and reject otherwise (status 0: the fetch       *)
(* itself rejected).                                                       *)

\* setTimer(300)
TimerStart == 300

LoginModes == {"login", "register"}

\* the start of each handler: setLoading(true), setError(''), the request
HandlerStarted(l, h, handler, op) ==
    [l EXCEPT !.loading = TRUE, !.error = "",
              !.pending[h] = [handler |-> handler, awaiting |-> op]]

\* a failing handler that goes on to the OTP step all the same
FailedButOtpStep(l, h, msg) ==
    [l EXCEPT !.step = "otp", !.error = msg, !.loading = FALSE,
              !.pending[h] = IdleHandler]

\* catch: setError(err.message || default); finally: setLoading(false)
HandlerFailed(l, h, msg) ==
    [l EXCEPT !.error = msg, !.loading = FALSE, !.pending[h] = IdleHandler]

\* sendOTP resolved: setStep('otp'), setTimer(300), alert, setLoading(false)
SendSucceeded(l, h) ==
    [l EXCEPT !.step = "otp", !.timer = TimerStart,
              !.alert = IF l.pending[h].handler = "handleRegister"
                        THEN "Registration successful! Check your email (or console) for OTP."
                        ELSE "OTP sent! Check your email (or backend console for development).",
              !.loading = FALSE, !.pending[h] = IdleHandler]

\* the message of the Error a failed request rejects with
RequestError(op, status, detail) ==
    IF status = 0 THEN TransportError ELSE OtherErrorMessage(op, detail)

NotLogin == <<storage, location, calls, verify, other, app, tabs, playground>>

\* the Login / Register toggle of the email step
setMode(m) ==
    /\ LoginShown /\ login.step = "email"
    /\ login' = [login EXCEPT !.mode = m]
    /\ UNCHANGED NotLogin

\* the register form is submitted: registerUser is called
handleRegister(h) ==
    /\ LoginShown /\ login.step = "email" /\ login.mode = "register"
    /\ ~login.loading
    /\ login.pending[h] = IdleHandler
    /\ login' = HandlerStarted(login, h, "handleRegister", "registerUser")
    /\ UNCHANGED NotLogin

\* the login form is submitted: sendOTP is called
handleSendOTP(h) ==
    /\ LoginShown /\ login.step = "email" /\ login.mode = "login"
    /\ ~login.loading
    /\ login.pending[h] = IdleHandler
    /\ login' = HandlerStarted(login, h, "handleSendOTP", "sendOTP")
    /\ UNCHANGED NotLogin

\* the Resend OTP button of the OTP step: if (timer > 0) return;
\* handleSendOTP()
handleResendOTP(h) ==
    /\ LoginShown /\ login.step = "otp"
    /\ login.pending[h] = IdleHandler
    /\ login' = IF login.timer > 0 THEN login
                ELSE HandlerStarted(login, h, "handleSendOTP", "sendOTP")
    /\ UNCHANGED NotLogin

\* registerUser resolved: handleRegister goes on to sendOTP
RegisterOk(h, status) ==
    /\ LoginShown /\ login.pending[h].awaiting = "registerUser"
    /\ Ok(status)
    /\ login' = [login EXCEPT !.pending[h].awaiting = "sendOTP"]
    /\ UNCHANGED NotLogin

RegisterFails(h, status, detail) ==
    /\ LoginShown /\ login.pending[h].awaiting = "registerUser"
    /\ ~Ok(status)
    /\ login' = HandlerFailed(login, h, RequestError("registerUser", status, detail))
    /\ UNCHANGED NotLogin

SendOk(h, status) ==
    /\ LoginShown /\ login.pending[h].awaiting = "sendOTP"
    /\ Ok(status)
    /\ login' = SendSucceeded(login, h)
    /\ UNCHANGED NotLogin

SendFails(h, status, detail) ==
    /\ LoginShown /\ login.pending[h].awaiting = "sendOTP"
    /\ ~Ok(status)
    /\ login' = HandlerFailed(login, h, RequestError("sendOTP", status, detail))
    /\ UNCHANGED NotLogin

\* the Change Email Address button of the OTP step
changeEmail ==
    /\ LoginShown /\ login.step = "otp"
    /\ login' = [login EXCEPT !.step = "email", !.error = ""]
    /\ UNCHANGED NotLogin

\* the interval of the timer effect, armed while timer > 0
Tick ==
    /\ LoginShown /\ login.timer > 0
    /\ login' = [login EXCEPT !.timer = @ - 1]
    /\ UNCHANGED NotLogin

\* the OTP form is submitted: verifyOTP is called
handleVerifyOTP(email, otp) ==
    /\ LoginShown /\ login.step = "otp"
    /\ ~login.loading
    /\ VerifyStart(email, otp)
    /\ login' = [login EXCEPT !.loading = TRUE, !.error = ""]
    /\ UNCHANGED <<app, tabs, playground>>

\* verifyOTP rejected: the catch and the finally of handleVerifyOTP
VerifyFailed ==
    /\ LoginShown
    /\ \/ \E s \in Statuses, dt \in Details : VerifyRejected(s, dt, NoData)
       \/ VerifyFails
    /\ login' = [login EXCEPT !.error = verify'.err, !.loading = FALSE]
    /\ UNCHANGED <<app, tabs, playground>>

LoginNext ==
    \/ CheckAuth
    \/ \E m \in LoginModes : setMode(m)
    \/ \E h \in SoloHandlers : handleRegister(h)
    \/ \E h \in SoloHandlers : handleSendOTP(h)
    \/ \E h \in SoloHandlers, s \in Statuses : RegisterOk(h, s)
    \/ \E h \in SoloHandlers, s \in Statuses \cup {0}, d \in Details :
          RegisterFails(h, s, d)
    \/ \E h \in SoloHandlers, s \in Statuses : SendOk(h, s)
    \/ \E h \in SoloHandlers, s \in Statuses \cup {0}, d \in Details :
          SendFails(h, s, d)
    \/ changeEmail
    \/ \E e \in Emails, o \in Otps : handleVerifyOTP(e, o)
    \/ \E s \in Statuses, d \in VerifyData : LoginSuccess(s, d)
    \/ VerifyFailed

\* The login page without the passing of time: register, send, verify.
LoginSpec == Init /\ [][LoginNext]_vars

ResendNext ==
    \/ CheckAuth
    \/ \E h \in Handlers : handleSendOTP(h)
    \/ \E h \in Handlers : handleResendOTP(h)
    \/ \E h \in Handlers, s \in Statuses : SendOk(h, s)
    \/ \E h \in Handlers, s \in Statuses \cup {0}, d \in Details :
          SendFails(h, s, d)
    \/ changeEmail
    \/ Tick

\* The login page's OTP sending and its resend timer.
ResendSpec == Init /\ [][ResendNext]_vars

-----------------------------------------------------------------------------
(* App mounted in a browser whose localStorage holds what earlier page     *)
(* loads left there.  Caller c1 is checkAuth, caller c2 is InputTabs.      *)

MountInit ==
    /\ storage \in AllStores
    /\ location = "/"
    /\ calls = [c \in Callers |-> IdleCall]
    /\ verify = IdleVerify
    /\ other = IdleOther
    /\ app = InitialApp
    /\ tabs = InitialTabs
    /\ playground = NoPlayground
    /\ login = InitialLogin

\* setUser(profile.profile): the user record of the profile response
ProfileUser == CHOOSE u \in Users : TRUE

\* checkAuth on mount, an access token stored: getUserProfile is called
CheckAuthProfile(c) ==
    /\ app.authLoading
    /\ Truthy(getItem(storage, "access_token"))
    /\ calls[c].pc = "idle"
    /\ Start(c, "getUserProfile")
    /\ UNCHANGED ui

\* checkAuth after its await: setUser and setIsAuthenticated(true) on
\* success, setIsAuthenticated(false) in the catch, setAuthLoading(false) in
\* both cases; nothing while the call is still in flight.
CheckAuthContinues(c) ==
    /\ CASE calls'[c].pc = "resolved" ->
               app' = [app EXCEPT !.user = ProfileUser, !.isAuthenticated = TRUE,
                                  !.authLoading = FALSE]
         [] calls'[c].pc = "rejected" ->
               app' = [app EXCEPT !.isAuthenticated = FALSE, !.authLoading = FALSE]
         [] OTHER -> app' = app
    /\ UNCHANGED <<tabs, playground, login>>

\* the network settles the request checkAuth's getUserProfile has in flight
CheckAuthAnswer(c) ==
    \/ FetchFails(c) /\ CheckAuthContinues(c)
    \/ \E s \in Statuses : RespondOk(c, s) /\ CheckAuthContinues(c)
    \/ \E s \in Statuses, d \in Details :
          RespondError(c, s, d) /\ CheckAuthContinues(c)
    \/ \E s \in Statuses : Respond401(c, s) /\ CheckAuthContinues(c)
    \/ \E t \in AccessTokens, s \in Statuses :
          RefreshOk(c, s, t) /\ CheckAuthContinues(c)
    \/ \E s \in Statuses \cup {0} : RefreshFails(c, s) /\ CheckAuthContinues(c)

\* the network settles the request InputTabs' summarize call has in flight
SummarizeAnswer(c) ==
    \/ FetchFails(c) /\ SummarizeContinues(c)
    \/ \E s \in Statuses : RespondOk(c, s) /\ SummarizeContinues(c)
    \/ \E s \in Statuses, d \in Details :
          RespondError(c, s, d) /\ SummarizeContinues(c)
    \/ \E s \in Statuses : Respond401(c, s) /\ SummarizeContinues(c)
    \/ \E t \in AccessTokens, s \in Statuses :
          RefreshOk(c, s, t) /\ SummarizeContinues(c)
    \/ \E s \in Statuses \cup {0} : RefreshFails(c, s) /\ SummarizeContinues(c)

MountNext ==
    \/ CheckAuth
    \/ CheckAuthProfile("c1")
    \/ CheckAuthAnswer("c1")
    \/ \E e \in Emails, o \in Otps :
          LoginShown /\ VerifyStart(e, o) /\ UNCHANGED ui
    \/ \E s \in Statuses, d \in VerifyData : LoginSuccess(s, d)
    \/ \E s \in Statuses, dt \in Details :
          VerifyRejected(s, dt, NoData) /\ UNCHANGED ui
    \/ \E v \in Texts : setText(v)
    \/ handleSummarize("c2")
    \/ SummarizeAnswer("c2")
    \/ handleLogout

\* App from mount on.
MountSpec == MountInit /\ [][MountNext]_vars

\* The mount effect runs, and every request of checkAuth gets a response
\* (or a transport failure).
FairMountSpec ==
    /\ MountSpec
    /\ WF_vars(CheckAuth)
    /\ WF_vars(CheckAuthProfile("c1"))
    /\ WF_vars(CheckAuthAnswer("c1"))

-----------------------------------------------------------------------------
(* Properties *)

\* the step dispatches a request of caller c's protected operation
Dispatched(c) == calls[c].pc # "fetch" /\ calls'[c].pc = "fetch"

\* the step is caller c's operation receiving status 401 for its request
Got401(c) == calls[c].pc = "fetch" /\ calls'[c] # calls[c] /\ calls'[c].status = 401

\* the step is caller c's refresh attempt failing
RefreshFailed(c) == calls[c].pc = "refresh" /\ calls'[c].pc \notin {"refresh", "fetch"}

\* C1: one original call sends at most one refresh request and at most two
\* protected requests (the first attempt and one retry): a second 401 after
\* a successful refresh is not followed by another refresh.
C1_AtMostOneRefresh ==
    \A c \in Callers : calls[c].refreshes <= 1 /\ calls[c].sent <= 2

\* C2: after a first 401 and a successful refresh the request is re-sent
\* once, to the same endpoint, carrying the access token the refresh
\* returned; if the retry is answered 2xx the operation resolves with the
\* payload, having written the access token once.
C2_RefreshThenRetry ==
    \A c \in Callers :
        LET call == calls[c]
        IN /\ (call.pc = "fetch" /\ call.n401 = 1) =>
                  /\ call.sent = 2 /\ call.refreshes = 1 /\ call.writes = 1
                  /\ call.req.path = PathOf(call.op)
                  /\ HasAuthorization(call.req)
                  /\ call.req.headers["Authorization"] = Bearer(call.data)
           /\ (call.n401 = 1 /\ Ok(call.status)) =>
                  /\ call.pc = "resolved"
                  /\ call.result = PayloadOf(call.op)
                  /\ call.sent = 2 /\ call.refreshes = 1 /\ call.writes = 1

\* a call that got 401, refreshed and resolved on its one retry
C2_Witness ==
    /\ calls["c1"].pc = "resolved"
    /\ calls["c1"].n401 = 1 /\ calls["c1"].sent = 2 /\ calls["c1"].writes = 1
    /\ calls["c1"].status = 200

\* C3: when the refresh attempt after a 401 fails, in that same step both
\* tokens are removed, the operation rejects with the session-expired error,
\* the page is sent to /login and no request is dispatched.
C3_FailedRefreshExpires ==
    [][\A c \in Callers :
          RefreshFailed(c) =>
              /\ DOMAIN storage' \cap {"access_token", "refresh_token"} = {}
              /\ calls'[c].pc = "rejected"
              /\ calls'[c].err = SessionExpiredMessage
              /\ calls'[c].err # TransportError
              /\ location' = "/login"
              /\ calls'[c].req = NoRequest
              /\ calls'[c].sent = calls[c].sent
              /\ calls'[c].refreshes = calls[c].refreshes]_vars

\* a first refresh attempt has failed and the call was rejected
C3_Witness ==
    /\ calls["c1"].pc = "rejected"
    /\ calls["c1"].err = SessionExpiredMessage
    /\ calls["c1"].refreshes = 1 /\ calls["c1"].writes = 0
    /\ storage = EmptyStore /\ location = "/login"

\* C4: every protected call that is started eventually resolves or rejects,
\* given that every request gets a response.
C4_CallsSettle ==
    \A c \in SoloCallers : InFlight(calls[c]) ~> ~InFlight(calls[c])

\* C5: a 401 received while no refresh token is stored sends no refresh
\* request, clears the access token and rejects with the session-expired
\* error.
C5_NoRefreshToken ==
    [][\A c \in Callers :
          (Got401(c) /\ "refresh_token" \notin DOMAIN storage) =>
              /\ calls'[c].pc = "rejected"
              /\ calls'[c].err = SessionExpiredMessage
              /\ calls'[c].req = NoRequest
              /\ calls'[c].refreshes = calls[c].refreshes
              /\ "access_token" \notin DOMAIN storage']_vars

\* a first 401 met no refresh token: rejected without any refresh request
C5_Witness ==
    /\ calls["c1"].pc = "rejected"
    /\ calls["c1"].err = SessionExpiredMessage
    /\ calls["c1"].n401 = 1 /\ calls["c1"].refreshes = 0
    /\ storage = EmptyStore

\* C6: a request of a protected operation dispatched while no access token
\* is stored carries no Authorization header.
C6_NoTokenNoHeader ==
    [][\A c \in Callers :
          (Dispatched(c) /\ "access_token" \notin DOMAIN storage') =>
              ~HasAuthorization(calls'[c].req)]_vars

\* the multipart request of summarizePDF in flight without Authorization
C6_Witness ==
    /\ calls["c1"].pc = "fetch"
    /\ calls["c1"].op = "summarizePDF"
    /\ calls["c1"].req.path = "/api/summarize-pdf"
    /\ ~HasAuthorization(calls["c1"].req)
    /\ "access_token" \notin DOMAIN storage

\* C7: every request of a protected operation, first attempt or retry,
\* carries Authorization: Bearer <t> for the access token t that storage
\* holds when the request is dispatched, and never any other token.
C7_TokenReadAtDispatch ==
    [][\A c \in Callers :
          Dispatched(c) =>
              /\ "access_token" \in DOMAIN storage' =>
                    /\ HasAuthorization(calls'[c].req)
                    /\ calls'[c].req.headers["Authorization"]
                          = Bearer(storage'["access_token"])
              /\ HasAuthorization(calls'[c].req) =>
                    /\ "access_token" \in DOMAIN storage'
                    /\ calls'[c].req.headers["Authorization"]
                          = Bearer(storage'["access_token"])]_vars

\* a first attempt that carries the refreshed token A2, not the token A1
\* that the login stored and an earlier call's first request carried
C7_Witness ==
    /\ verify.pc = "resolved" /\ verify.result.access_token = "A1"
    /\ calls["c1"].pc = "fetch" /\ calls["c1"].sent = 1
    /\ HasAuthorization(calls["c1"].req)
    /\ calls["c1"].req.headers["Authorization"] = "Bearer A2"

\* C8: a step of verifyOTP either leaves storage as it was or leaves it
\* holding both tokens of the response: no step of another operation sees
\* one of the two without the other.
C8_VerifyPersistsBoth ==
    [][verify' # verify =>
          \/ storage' = storage
          \/ /\ getItem(storage', "access_token") = verify'.data.access_token
             /\ getItem(storage', "refresh_token") = verify'.data.refresh_token]_vars

\* verifyOTP has replaced an older pair while a protected call is in flight
C8_Witness ==
    /\ verify.pc = "resolved"
    /\ storage = StoreOf("A2", "R2")
    /\ verify.data.access_token = "A2" /\ verify.data.refresh_token = "R2"
    /\ calls["c1"].pc = "fetch"
    /\ HasAuthorization(calls["c1"].req)
    /\ calls["c1"].req.headers["Authorization"] = "Bearer A1"

\* C9: a verifyOTP that fails (non-2xx or transport) rejects and leaves
\* storage exactly as it was.
C9_FailedVerifyKeepsStorage ==
    [][(verify.pc = "sent" /\ verify'.pc # "sent" /\ ~Ok(verify'.status)) =>
          /\ verify'.pc = "rejected"
          /\ verify'.err # ""
          /\ storage' = storage]_vars

\* a rejected verifyOTP with an earlier session's tokens still stored
C9_Witness ==
    /\ verify.pc = "rejected"
    /\ verify.status = 500
    /\ storage = StoreOf("A1", "R2")

\* C10 as stated: verifyOTP resolves to the user record of the response.
C10_ResolvesToUser ==
    verify.pc = "resolved" => verify.result = verify.data.user

\* C10: verifyOTP answered 2xx with {access_token: A, refresh_token: R,
\* user: U} stores A and R and resolves to the whole response body; the
\* login form hands its user field U to onLoginSuccess.
C10_VerifyStoresAndReturnsData ==
    /\ [](verify.pc = "resolved" =>
             /\ verify.result = verify.data
             /\ verify.result.user \in Users
             /\ verify.loginUser = verify.data.user)
    /\ [][(verify.pc = "sent" /\ verify'.pc = "resolved") =>
             /\ getItem(storage', "access_token") = verify'.data.access_token
             /\ getItem(storage', "refresh_token") = verify'.data.refresh_token
             /\ verify'.data.access_token \in AccessTokens
             /\ verify'.data.refresh_token \in RefreshTokens]_vars

\* verifyOTP resolved against {access_token: "A1", refresh_token: "R1", user}
C10_Witness ==
    /\ verify.pc = "resolved"
    /\ verify.result.access_token = "A1" /\ verify.result.refresh_token = "R1"
    /\ verify.loginUser = [email |-> "a@b.com"]
    /\ storage = StoreOf("A1", "R1")

\* C11: logout can always be called; from every store (both tokens, one,
\* none) it leaves neither access_token nor refresh_token, and a second
\* logout changes nothing more.
C11_LogoutClearsBoth ==
    /\ ENABLED Logout
    /\ \A s \in AllStores \cup {storage} :
          /\ DOMAIN logout(s) \cap {"access_token", "refresh_token"} = {}
          /\ logout(logout(s)) = logout(s)

\* logout has cleared the pair a verifyOTP stored (no recovery ever failed:
\* the page was never sent to /login)
C11_Witness ==
    /\ verify.pc = "resolved"
    /\ location = "/"
    /\ \A c \in Callers : calls[c].writes = 0
    /\ storage = EmptyStore

\* C13: a protected call whose response is non-2xx other than 401, or whose
\* request fails in transport (status 0), rejects in that step: no refresh
\* request is sent, the request is not sent again, storage is untouched.
C13_ErrorsAreNotRetried ==
    [][\A c \in Callers :
          (/\ calls[c].pc = "fetch" /\ calls'[c] # calls[c]
           /\ ~Ok(calls'[c].status) /\ calls'[c].status # 401) =>
              /\ calls'[c].pc = "rejected"
              /\ calls'[c].err # "" /\ calls'[c].err # SessionExpiredMessage
              /\ calls'[c].req = NoRequest
              /\ calls'[c].refreshes = calls[c].refreshes
              /\ calls'[c].sent = calls[c].sent
              /\ calls[c].n401 = 0 => (calls'[c].sent = 1 /\ calls'[c].refreshes = 0)
              /\ storage' = storage]_vars

\* a first response 500 rejected summarizeYouTube with its default message
\* while a full token pair was stored
C13_Witness ==
    /\ calls["c1"].pc = "rejected"
    /\ calls["c1"].op = "summarizeYouTube"
    /\ calls["c1"].status = 500
    /\ calls["c1"].err = "HTTP 500: Failed to summarize YouTube"
    /\ calls["c1"].sent = 1 /\ calls["c1"].refreshes = 0
    /\ storage = StoreOf("A1", "R1")

\* C17: an access token is stored only if a refresh token is stored too.
C17_TokenPairIntegrity ==
    "access_token" \in DOMAIN storage => "refresh_token" \in DOMAIN storage

TokenKeys == {"access_token", "refresh_token"}

\* the step stores a token value that was not there
Written == \E k \in TokenKeys :
              k \in DOMAIN storage' /\ getItem(storage', k) # getItem(storage, k)

\* the step removes a stored token
Removed == \E k \in TokenKeys : k \in DOMAIN storage /\ k \notin DOMAIN storage'

\* the step is verifyOTP resolving
VerifySucceeded == verify.pc = "sent" /\ verify'.pc = "resolved" /\ Ok(verify'.status)

\* the step is a refresh request answered 2xx, inside a protected call or
\* for a direct caller of refreshAccessToken
RefreshSucceeded ==
    \/ \E c \in Callers : calls[c].pc = "refresh" /\ calls'[c].pc = "fetch"
    \/ /\ other.op = "refreshAccessToken" /\ other.pc = "sent"
       /\ other'.pc = "resolved" /\ other'.result = "true"

\* the step is logout(): no call of any operation moves
LoggedOut == calls' = calls /\ verify' = verify /\ other' = other

\* the step is handleAuthError giving up after a 401
FailedRecovery ==
    \E c \in Callers :
        /\ InFlight(calls[c]) /\ calls'[c].pc = "rejected"
        /\ calls'[c].status = 401 /\ calls'[c].err = SessionExpiredMessage

\* C12: a step writes a token only if it is a successful verifyOTP or a
\* successful refresh, and removes one only if it is logout or a failed
\* recovery after 401; registerUser, sendOTP, downloadQuizPdf, and a
\* protected call answered 2xx, non-401 or not at all leave storage as it is.
C12_TokenFrame ==
    [][/\ Written => (VerifySucceeded \/ RefreshSucceeded)
       /\ Removed => (LoggedOut \/ FailedRecovery)
       /\ (other' # other
             /\ other'.op \in {"registerUser", "sendOTP", "downloadQuizPdf"}) =>
                storage' = storage
       /\ \A c \in Callers :
             (/\ calls[c].pc = "fetch" /\ calls'[c] # calls[c]
              /\ calls'[c].status # 401) => storage' = storage]_vars

\* with a token pair stored: sendOTP was rejected with 401 and a protected
\* call with 500, and the pair is still the one verifyOTP stored
C12_Witness ==
    /\ other.op = "sendOTP" /\ other.pc = "rejected" /\ other.status = 401
    /\ calls["c1"].pc = "rejected" /\ calls["c1"].status = 500
    /\ verify.pc = "resolved"
    /\ storage = StoreOf(verify.data.access_token, verify.data.refresh_token)

\* C14: the request of downloadQuizPdf never carries Authorization; when it
\* is answered non-2xx (401 included) or fails in transport, the operation
\* rejects in that step with that failure, logged, and nothing is sent: no
\* refresh request, no second download request, storage and page untouched.
C14_DownloadUnauthenticated ==
    /\ []((other.op = "downloadQuizPdf" /\ other.pc = "sent") =>
             /\ other.req.path = "/api/download-quiz"
             /\ ~HasAuthorization(other.req))
    /\ [][(/\ other.op = "downloadQuizPdf" /\ other.pc = "sent"
           /\ other' # other /\ ~Ok(other'.status)) =>
              /\ other'.pc = "rejected"
              /\ other'.req = NoRequest
              /\ other'.err \in {TransportError, "Failed to download PDF"}
                                  \cup (Details \ {""})
              /\ other'.err # SessionExpiredMessage
              /\ other'.logged = "Download failed: " \o other'.err
              /\ storage' = storage /\ location' = location
              /\ calls' = calls]_vars

\* downloadQuizPdf was answered 401 while a token pair was stored: rejected
\* and logged, the pair untouched
C14_Witness ==
    /\ other.op = "downloadQuizPdf" /\ other.pc = "rejected"
    /\ other.status = 401
    /\ other.logged = "Download failed: Failed to download PDF"
    /\ storage = StoreOf("A1", "R1")
    /\ location = "/"

\* C19: a refresh answered 2xx overwrites access_token and nothing else (the
\* refresh token stays as it was, stored or not); a direct call of
\* refreshAccessToken that returns false leaves storage exactly as it was.
C19_RefreshKeepsRefreshToken ==
    [][/\ RefreshSucceeded =>
             /\ getItem(storage', "refresh_token") = getItem(storage, "refresh_token")
             /\ "access_token" \in DOMAIN storage'
             /\ storage'["access_token"] \in AccessTokens
             /\ storage' = setItem(storage, "access_token", storage'["access_token"])
       /\ \A c \in Callers :
             (calls[c].pc = "refresh" /\ calls'[c].pc = "fetch") =>
                 storage'["access_token"] = calls'[c].data
       /\ (/\ other' # other /\ other'.op = "refreshAccessToken"
           /\ other'.pc = "resolved" /\ other'.result = "false") =>
                 storage' = storage]_vars

\* a direct refreshAccessToken was answered 500 and returned false with the
\* token pair still stored
C19_Witness ==
    /\ other.op = "refreshAccessToken" /\ other.pc = "resolved"
    /\ other.result = "false" /\ other.status = 500
    /\ storage = StoreOf("A1", "R1")

\* C15: refreshes of two calls are not coalesced.  A call that gets 401
\* while a refresh token is stored sends its own refresh request, also when
\* the other call's refresh request is already in flight; a call whose
\* refresh succeeds re-sends its own request and leaves the other call
\* alone; the stored access token is the one of the refresh that has just
\* completed, whatever an earlier refresh wrote.
C15_RefreshNotCoalesced ==
    [][\A c, d \in Callers :
          /\ (Got401(c) /\ HasRefreshToken(storage)) =>
                /\ calls'[c].pc = "refresh"
                /\ calls'[c].req = RefreshRequest(getItem(storage, "refresh_token"))
                /\ calls'[c].refreshes = Inc(calls[c].refreshes)
                /\ (d # c /\ calls[d].pc = "refresh") =>
                      /\ calls'[d] = calls[d]
                      /\ calls'[d].req.path = "/api/auth/refresh"
          /\ (calls[c].pc = "refresh" /\ calls'[c].pc = "fetch") =>
                /\ calls'[c].req.path = PathOf(calls[c].op)
                /\ calls'[c].op = calls[c].op
                /\ calls'[c].sent = Inc(calls[c].sent)
                /\ storage'["access_token"] = calls'[c].data
                /\ d # c => calls'[d] = calls[d]]_vars

\* both calls got 401 and refreshed: the first to complete got A1 and sent
\* its retry with it, the second got A2, which is what storage now holds
C15_Witness ==
    /\ calls["c1"].pc = "fetch" /\ calls["c1"].sent = 2 /\ calls["c1"].refreshes = 1
    /\ calls["c1"].data = "A1"
    /\ calls["c1"].req.headers["Authorization"] = "Bearer A1"
    /\ calls["c2"].pc = "fetch" /\ calls["c2"].sent = 2 /\ calls["c2"].refreshes = 1
    /\ calls["c2"].data = "A2"
    /\ calls["c2"].req.path = "/api/quiz"
    /\ storage["access_token"] = "A2"

\* C18: while the user is logged out (App has not been authenticated, or
\* handleLogout has run and no verifyOTP has succeeded since) storage holds
\* no token.
C18_LogoutIsFinal ==
    ~app.isAuthenticated => DOMAIN storage \cap TokenKeys = {}

\* a string with nothing but white space in it
Blank(str) == \A i \in DOMAIN str : str[i] \in {" ", "\t", "\n"}

\* the active tab has nothing to summarize: blank text, no file, blank URL
NothingToSummarize ==
    \/ tabs.activeTab = "text" /\ Blank(tabs.text)
    \/ tabs.activeTab = "pdf" /\ tabs.file = Null
    \/ tabs.activeTab = "youtube" /\ Blank(tabs.url)

\* C16: handleSummarize starts a call only when the active tab's input is
\* present, and then exactly one: the operation of the active tab, with
\* loading set; with the input missing it alerts and starts nothing; loading
\* is true exactly while the call is in flight, so it is false again once
\* the call has resolved or rejected.
C16_SummarizeDispatch ==
    /\ [](\A c \in SoloCallers : app.loading <=> InFlight(calls[c]))
    /\ [][\A c \in SoloCallers :
             /\ (~InFlight(calls[c]) /\ InFlight(calls'[c])) =>
                   /\ ~NothingToSummarize
                   /\ calls'[c].op = OpOfTab(tabs.activeTab)
                   /\ calls'[c].req.path = PathOf(OpOfTab(tabs.activeTab))
                   /\ calls'[c].sent = 1
                   /\ app'.loading
                   /\ \A d \in Callers \ {c} : calls'[d] = calls[d]
             /\ (NothingToSummarize /\ ~InFlight(calls[c])) =>
                   /\ ~InFlight(calls'[c])
                   /\ calls'[c] = calls[c]
             /\ (InFlight(calls[c]) /\ ~InFlight(calls'[c])) =>
                   /\ calls'[c].pc \in {"resolved", "rejected"}
                   /\ ~app'.loading]_vars

\* on the youtube tab with a URL typed, summarizeYouTube was answered 500:
\* the failure was alerted and loading is false again
C16_Witness ==
    /\ tabs.activeTab = "youtube" /\ tabs.url = <<"u">>
    /\ calls["c1"].op = "summarizeYouTube" /\ calls["c1"].pc = "rejected"
    /\ calls["c1"].status = 500
    /\ tabs.alert = "Failed to summarize: HTTP 500: Failed to summarize YouTube"
    /\ ~app.loading

\* C20: once handleSubmit has run (a score is set, until Retake clears it)
\* the score card is shown, whatever the score from 0 to the number of
\* questions, and the score is the number of questions answered with their
\* answer_index.
C20_ScoreCardAfterSubmit ==
    playground.score # NoScore =>
        /\ ScoreCard(playground)
        /\ playground.score[1] \in 0..Len(playground.questions)
        /\ playground.score[1] = Total(playground.questions, playground.answers)

\* C21: with a quiz mounted, currentIndex is always one of
\* 0..questions.length-1; handleNext on the last question and handlePrev on
\* the first change nothing, elsewhere they move by one; handleRetake
\* restores index 0, no answers, no score and a hidden explanation.
C21_IndexInRange ==
    /\ [](playground.questions # <<>> =>
             /\ playground.currentIndex >= 0
             /\ playground.currentIndex <= Len(playground.questions) - 1
             /\ DOMAIN playground.answers \subseteq 0..(Len(playground.questions) - 1))
    /\ [][/\ handleNext =>
                playground' = IF playground.currentIndex = Len(playground.questions) - 1
                              THEN playground
                              ELSE [playground EXCEPT !.currentIndex = @ + 1,
                                                      !.showExplanation = FALSE]
          /\ handlePrev =>
                playground' = IF playground.currentIndex = 0
                              THEN playground
                              ELSE [playground EXCEPT !.currentIndex = @ - 1,
                                                      !.showExplanation = FALSE]
          /\ handleRetake =>
                /\ playground'.currentIndex = 0
                /\ playground'.answers = <<>>
                /\ playground'.score = NoScore
                /\ ~playground'.showExplanation
                /\ playground'.questions = playground.questions]_vars

\* on the last of two questions, both answered, the explanation open
C21_Witness ==
    /\ Len(playground.questions) = 2
    /\ playground.currentIndex = 1
    /\ DOMAIN playground.answers = {0, 1}
    /\ playground.showExplanation

\* C22: the OTP step is entered only by a step in which a sendOTP request
\* is answered 2xx; handleRegister sends its sendOTP request only in the
\* step in which its registerUser request is answered 2xx; a handler whose
\* register or send request fails ends with the step as it was, an error
\* message set and loading off; App becomes authenticated only in the step
\* in which verifyOTP resolves, with both tokens of the response stored.
C22_LoginFlowOrder ==
    [][/\ (login.step # "otp" /\ login'.step = "otp") =>
             \E h \in Handlers :
                /\ login.pending[h].awaiting = "sendOTP"
                /\ login'.pending[h] = IdleHandler
                /\ \E s \in Statuses : SendOk(h, s)
       /\ \A h \in Handlers :
             /\ (/\ login'.pending[h].handler = "handleRegister"
                 /\ login'.pending[h].awaiting = "sendOTP"
                 /\ login.pending[h] # login'.pending[h]) =>
                   /\ login.pending[h].handler = "handleRegister"
                   /\ login.pending[h].awaiting = "registerUser"
                   /\ \E s \in Statuses : Ok(s) /\ RegisterOk(h, s)
             /\ (/\ login.pending[h] # IdleHandler
                 /\ login'.pending[h] = IdleHandler
                 /\ ~\E s \in Statuses : SendOk(h, s)) =>
                   /\ login'.step = login.step
                   /\ login'.error # ""
                   /\ ~login'.loading
       /\ (~app.isAuthenticated /\ app'.isAuthenticated) =>
             /\ verify.pc = "sent" /\ verify'.pc = "resolved"
             /\ app'.user = verify'.data.user
             /\ getItem(storage', "access_token") = verify'.data.access_token
             /\ getItem(storage', "refresh_token") = verify'.data.refresh_token
             /\ verify'.data.access_token \in AccessTokens
             /\ verify'.data.refresh_token \in RefreshTokens]_vars

\* a registration went through registerUser and sendOTP to the OTP step,
\* where a verifyOTP was then rejected
C22_Witness ==
    /\ login.mode = "register" /\ login.step = "otp"
    /\ login.alert = "Registration successful! Check your email (or console) for OTP."
    /\ login.error = "Invalid OTP"
    /\ verify.pc = "rejected"
    /\ ~app.isAuthenticated /\ storage = EmptyStore

\* C23: handleResendOTP sends nothing while the timer is above 0; every
\* successful send sets the timer to 300, a tick lowers it by 1, it is never
\* negative; and at most one sendOTP request is in flight at any time.
C23_ResendThrottle ==
    /\ login.timer \in 0..TimerStart
    /\ Cardinality({h \in Handlers : login.pending[h].awaiting = "sendOTP"}) <= 1

\* the authenticated view appears only in the step in which checkAuth's
\* getUserProfile resolves or verifyOTP resolves for the Login flow
AuthenticatedOnlyAfterProfileOrLogin ==
    [][(~app.isAuthenticated /\ app'.isAuthenticated) =>
          \/ /\ app.authLoading
             /\ calls["c1"].op = "getUserProfile"
             /\ InFlight(calls["c1"]) /\ calls'["c1"].pc = "resolved"
          \/ /\ ~app.authLoading
             /\ verify.pc = "sent" /\ verify'.pc = "resolved"]_vars

\* mounted without an access token, checkAuth sends nothing and the login
\* view is shown, whatever else is stored
NoTokenNoProfileRequest ==
    [][(app.authLoading /\ ~Truthy(getItem(storage, "access_token"))) =>
          /\ calls' = calls /\ verify' = verify /\ other' = other
          /\ storage' = storage
          /\ ~app'.authLoading /\ ~app'.isAuthenticated]_vars

\* the step that leaves the authenticated view is handleLogout's, and it
\* resets the App state and removes both tokens
LogoutResetsApp ==
    [][(app.isAuthenticated /\ ~app'.isAuthenticated) =>
          /\ app'.user = InitialApp.user
          /\ app'.summaryData = NoSummary
          /\ app'.quiz = <<>>
          /\ TokenKeys \cap DOMAIN storage' = {}]_vars

\* C24: App shows the authenticated view only after getUserProfile resolved
\* during the mount check or after the Login flow reported success; mounted
\* with no access_token stored it sends no profile request and shows the
\* login view, even when a refresh_token is stored; authLoading always ends
\* false; and handleLogout leaves isAuthenticated false, user null, summary
\* and quiz emptied and both tokens cleared.
C24_MountCheck ==
    /\ AuthenticatedOnlyAfterProfileOrLogin
    /\ NoTokenNoProfileRequest
    /\ LogoutResetsApp
    /\ <>(~app.authLoading)

====
